---- MODULE Spec2Model ----
(***************************************************************************)
(* IAM access-key rotation (infrastructure/key-rotator/iam-key-rotator.ts) *)
(*                                                                         *)
(* The store is the IAM user's set of access keys.  One invocation of the  *)
(* scheduled Lambda runs rotateIAMUserKeys: it lists and sorts the keys,   *)
(* then creates a key and hands it to the credential pusher, or marks the  *)
(* older key Inactive, or deletes it, or throws; every await of the        *)
(* function is one step of the model.                                      *)
(***************************************************************************)
EXTENDS Integers, Sequences, FiniteSets, TLC

\* ------------------------------------------------------------------ bounds
\* Scheduler firings in a behaviour that starts without keys (Spec).
MaxTime == 12
\* Scheduler firings in a behaviour that starts from any key set (SpecAny).
MaxAnyRuns == 3
\* Scheduler firings in a behaviour whose invocations may overlap (SpecOverlap).
MaxOverlapRuns == 4
\* Keys of a store that was not built by the rotator (SpecAny).
MaxInitKeys == 3
\* Creation timestamps of such keys are drawn from 1..MaxInitTime.
MaxInitTime == 3

\* Scheduler firings in a behaviour whose store calls stop failing (SpecLive).
MaxLiveRuns == 8
\* Store calls that fail in such a behaviour.
MaxFaults == 2

\* ------------------------------------------------------------- constants
\* sleepSeconds(1) between createAccessKey and onNewCredentials.
GraceSeconds == 1
\* "Each IAM User has a limit of two keys": what IAM refuses to exceed.
KeyLimit == 2

\* Lambda instances that can exist side by side.
Slots == {1, 2}

\* AWS.IAM.statusType; "Expired" stands for any value the switch does not name.
Statuses == {"Active", "Inactive", "Expired"}

\* The secret access key IAM hands out once, at creation.
Secrets == {"s1", "s2"}

NoKey == [id |-> 0, secret |-> "-"]

VARIABLES
    store,       \* IAM: the user's access keys, records [id, created, status]
    nextId,      \* IAM: the next AccessKeyId it will hand out
    now,         \* clock, in scheduling intervals
    budget,      \* scheduler firings left in this behaviour
    pc,          \* per invocation: the await it is at
    startedAt,   \* per invocation: the clock value at which it was fired
    accessKeys,  \* per invocation: the sorted listing (local accessKeys)
    newKey,      \* per invocation: the AccessKey returned by create (local newKey)
    thrown,      \* per invocation: the error that reached the catch block
    calls,       \* per invocation: the calls issued to IAM and to the pusher
    log,         \* per invocation: the console lines
    outcome,     \* per invocation: how the promise given to the caller settled
    capped,      \* IAM: whether the store enforces KeyLimit on create
    pushes,      \* the pusher: the calls it has received, oldest first
    faults,      \* how many IAM calls have failed so far
    overlapped,  \* whether the Lambda was ever fired while it was running
    config,      \* the ServiceConfiguration given to the CredentialPusher
    travis,      \* Travis CI: per repository, its environment variables
    cp           \* the CredentialPusher and the pushNewCredentials call in progress

rotatorVars == <<store, nextId, now, budget, pc, startedAt, accessKeys, newKey,
                 thrown, calls, log, outcome, capped, pushes, faults, overlapped>>

pusherVars == <<config, travis, cp>>

vars == <<store, nextId, now, budget, pc, startedAt, accessKeys, newKey, thrown,
          calls, log, outcome, capped, pushes, faults, overlapped, config,
          travis, cp>>

\* --------------------------------------------------------------- helpers
\* The orders in which listAccessKeys may return the keys.
Perms(S) ==
    {s \in [1..Cardinality(S) -> S] : \A i, j \in DOMAIN s : i # j => s[i] # s[j]}

\* Mutant: the comparator with its two results exchanged (oldest first).
CompareKeysAscending(a, b) ==
    IF a.created > b.created THEN 1
    ELSE IF a.created < b.created THEN -1
    ELSE 0

\* The comparator handed to Array.prototype.sort: newer keys first.
CompareKeys(a, b) ==
    IF a.created > b.created THEN -1
    ELSE IF a.created < b.created THEN 1
    ELSE 0

\* Stable insertion of x into the sorted sequence s.
RECURSIVE InsertKey(_, _)
InsertKey(s, x) ==
    IF s = <<>> THEN <<x>>
    ELSE IF CompareKeys(Head(s), x) > 0 THEN <<x>> \o s
    ELSE <<Head(s)>> \o InsertKey(Tail(s), x)

\* accessKeys.sort(...): a stable sort by the comparator.
RECURSIVE SortFrom(_, _)
SortFrom(sorted, rest) ==
    IF rest = <<>> THEN sorted
    ELSE SortFrom(InsertKey(sorted, Head(rest)), Tail(rest))

\* Mutant: the listing is used in the order IAM returned it.
SortKeysUnsorted(s) == s

SortKeys(s) == SortFrom(<<>>, s)

\* Mutant: the first entry of the listing is taken for the older key.
OlderKeyIsFirst(keys) == keys[1]

\* const olderKey = accessKeys[1] (0-based).
OlderKey(keys) == keys[2]

\* Mutant: a new key is created while there are up to two keys.
NextStepCreateAtTwo(keys) ==
    IF Len(keys) > 2 THEN "fatal_count"
    ELSE IF Len(keys) <= 2 THEN "create"
    ELSE IF OlderKey(keys).status = "Active" THEN "invalidate"
    ELSE IF OlderKey(keys).status = "Inactive" THEN "delete"
    ELSE "fatal_status"

\* Mutant: an Inactive older key is invalidated again instead of deleted.
NextStepInactiveInvalidates(keys) ==
    IF Len(keys) > 2 THEN "fatal_count"
    ELSE IF Len(keys) <= 1 THEN "create"
    ELSE IF OlderKey(keys).status = "Active" THEN "invalidate"
    ELSE IF OlderKey(keys).status = "Inactive" THEN "invalidate"
    ELSE "fatal_status"

\* Mutant: the count check is off by one and the default case is missing.
NextStepLimitThree(keys) ==
    IF Len(keys) > 3 THEN "fatal_count"
    ELSE IF Len(keys) <= 1 THEN "create"
    ELSE IF OlderKey(keys).status = "Active" THEN "invalidate"
    ELSE "delete"

\* Mutant: the older key is deleted at once, without the Inactive step.
NextStepActiveDeletes(keys) ==
    IF Len(keys) > 2 THEN "fatal_count"
    ELSE IF Len(keys) <= 1 THEN "create"
    ELSE IF OlderKey(keys).status = "Active" THEN "delete"
    ELSE IF OlderKey(keys).status = "Inactive" THEN "delete"
    ELSE "fatal_status"

\* The branch rotateIAMUserKeys takes on a sorted listing.
NextStep(keys) ==
    IF Len(keys) > 2 THEN "fatal_count"
    ELSE IF Len(keys) <= 1 THEN "create"
    ELSE IF OlderKey(keys).status = "Active" THEN "invalidate"
    ELSE IF OlderKey(keys).status = "Inactive" THEN "delete"
    ELSE "fatal_status"

Fatal == {"fatal_count", "fatal_status"}

Call(op, id, secret, status, secs, ok) ==
    [op |-> op, id |-> id, secret |-> secret, status |-> status,
     secs |-> secs, ok |-> ok]

Running(p) == pc[p] \notin {"idle", "done"}

\* ------------------------------------------------- the credential pusher
\* Pushes of one behaviour of the pusher (SpecPush).
MaxPushCalls == 2

KeyName == "AWS_ACCESS_KEY_ID"

SecretName == "AWS_SECRET_ACCESS_KEY"

OtherName == "GITHUB_TOKEN"

DemoRepo == "chrsmith/pulumi-aws-travis-cicd-demo"

OtherRepo == "chrsmith/other"

Repos == {DemoRepo, OtherRepo}

\* TravisEnvVar: id 0 stands for a variable listed without an id.  A variable
\* starts with a stale value and with the visibility the pusher will not give it.
EnvVar(id, name) ==
    [id |-> id, name |-> name, value |-> "old", public |-> (name # KeyName)]

\* The env_vars listings a repository may start with.
EnvLists ==
    { <<>>,
      <<EnvVar(1, KeyName)>>,
      <<EnvVar(1, KeyName), EnvVar(2, SecretName)>>,
      <<EnvVar(1, SecretName), EnvVar(2, OtherName), EnvVar(3, KeyName)>>,
      <<EnvVar(0, KeyName), EnvVar(1, SecretName)>>,
      <<EnvVar(1, KeyName), EnvVar(2, KeyName), EnvVar(3, SecretName)>>,
      <<EnvVar(1, KeyName), EnvVar(2, SecretName), EnvVar(0, SecretName)>> }

\* Project: a repository and the names of its two variables.
DemoProject ==
    [project |-> DemoRepo, accessKeyIDLocation |-> KeyName,
     secretAccessKeyLocation |-> SecretName]

OtherProject ==
    [project |-> OtherRepo, accessKeyIDLocation |-> KeyName,
     secretAccessKeyLocation |-> SecretName]

\* A project whose two locations carry one name.
SameNameProject ==
    [project |-> DemoRepo, accessKeyIDLocation |-> KeyName,
     secretAccessKeyLocation |-> KeyName]

\* ServiceConfiguration.projects: undefined, or a list.
ProjectLists ==
    { [defined |-> FALSE, list |-> <<>>],
      [defined |-> TRUE, list |-> <<>>],
      [defined |-> TRUE, list |-> <<DemoProject>>],
      [defined |-> TRUE, list |-> <<SameNameProject>>],
      [defined |-> TRUE, list |-> <<DemoProject, OtherProject>>],
      [defined |-> TRUE, list |-> <<OtherProject, DemoProject>>] }

Configs == [accessKey : {"", "token"}, projects : ProjectLists]

\* The configuration index.ts passes to the pusher.
DemoConfig ==
    [accessKey |-> "token",
     projects |-> [defined |-> TRUE, list |-> <<DemoProject>>]]

\* The pairs pushNewCredentials may be called with.
Credentials == {[id |-> "AKIA1", secret |-> "s1"], [id |-> "AKIA2", secret |-> "s2"]}

NoError == "undefined"

ValidateConfigurationAcceptsEmpty(c) ==
    IF c.accessKey = ""
    THEN "No Travis CI access key provided."
    ELSE IF ~c.projects.defined
         THEN "No projects to push credentials to."
         ELSE NoError

\* TravisCIPusher.validateConfiguration
ValidateConfiguration(c) ==
    IF c.accessKey = ""
    THEN "No Travis CI access key provided."
    ELSE IF ~c.projects.defined \/ Len(c.projects.list) = 0
         THEN "No projects to push credentials to."
         ELSE NoError

RECURSIVE ResolveFromKeepsIdless(_, _, _, _)
ResolveFromKeepsIdless(envVars, i, project, ids) ==
    IF i > Len(envVars)
    THEN ids
    ELSE LET envVar == envVars[i] IN
         IF envVar.name = project.accessKeyIDLocation
         THEN ResolveFromKeepsIdless(envVars, i + 1, project,
                                     [ids EXCEPT !.accessKeyEnvVarId = envVar.id])
         ELSE IF envVar.name = project.secretAccessKeyLocation
              THEN ResolveFromKeepsIdless(envVars, i + 1, project,
                                          [ids EXCEPT !.secretAccessKeyEnvVarId = envVar.id])
              ELSE ResolveFromKeepsIdless(envVars, i + 1, project, ids)

\* The loop over envVars: a variable without id is skipped, a later variable
\* of the same name replaces an earlier one, and the secret's name is compared
\* only when the key id's name did not match.
RECURSIVE ResolveFrom(_, _, _, _)
ResolveFrom(envVars, i, project, ids) ==
    IF i > Len(envVars)
    THEN ids
    ELSE LET envVar == envVars[i] IN
         IF envVar.id = 0
         THEN ResolveFrom(envVars, i + 1, project, ids)
         ELSE IF envVar.name = project.accessKeyIDLocation
              THEN ResolveFrom(envVars, i + 1, project,
                               [ids EXCEPT !.accessKeyEnvVarId = envVar.id])
              ELSE IF envVar.name = project.secretAccessKeyLocation
                   THEN ResolveFrom(envVars, i + 1, project,
                                    [ids EXCEPT !.secretAccessKeyEnvVarId = envVar.id])
                   ELSE ResolveFrom(envVars, i + 1, project, ids)

ResolveEnvVarIds(envVars, project) ==
    ResolveFrom(envVars, 1, project,
                [accessKeyEnvVarId |-> 0, secretAccessKeyEnvVarId |-> 0])

PatchEnvVarAppends(envVars, id, value, public) ==
    Append(envVars,
           [id |-> Len(envVars) + 1,
            name |-> (CHOOSE v \in {envVars[i] : i \in DOMAIN envVars} : v.id = id).name,
            value |-> value, public |-> public])

\* PATCH /repo/{slug}/env_var/{id}: the variable keeps its id and name.
PatchEnvVar(envVars, id, value, public) ==
    [i \in DOMAIN envVars |->
        IF envVars[i].id = id
        THEN [envVars[i] EXCEPT !.value = value, !.public = public]
        ELSE envVars[i]]

\* A CredentialPusher before its constructor has run.
NewPusher(target) ==
    [state |-> "unbuilt", pc |-> "idle", args |-> [id |-> "-", secret |-> "-"],
     idx |-> 0, accessKeyEnvVarId |-> 0, secretAccessKeyEnvVarId |-> 0,
     before |-> target, history |-> <<>>, requests |-> 0]

\* --------------------------------------------------------------- initial
InitSlots ==
    /\ pc = [p \in Slots |-> "idle"]
    /\ startedAt = [p \in Slots |-> 0]
    /\ accessKeys = [p \in Slots |-> <<>>]
    /\ newKey = [p \in Slots |-> NoKey]
    /\ thrown = [p \in Slots |-> "none"]
    /\ calls = [p \in Slots |-> <<>>]
    /\ log = [p \in Slots |-> <<>>]
    /\ outcome = [p \in Slots |-> "pending"]
    /\ pushes = <<>>
    /\ faults = 0
    /\ overlapped = FALSE

\* index.ts constructs the pusher, for one project, before the rotator.
InitDemoPusher ==
    /\ config = DemoConfig
    /\ travis = [r \in Repos |-> <<EnvVar(1, KeyName), EnvVar(2, SecretName)>>]
    /\ cp = [NewPusher(travis) EXCEPT !.state = "built"]

\* A user without keys, on a schedule that keeps firing.
InitLive ==
    /\ InitDemoPusher
    /\ store = {}
    /\ nextId = 1
    /\ now = 0
    /\ budget = MaxLiveRuns
    /\ capped = TRUE
    /\ InitSlots

\* The program as index.ts starts it, for any configuration: the pusher is yet
\* to be constructed and the user has no keys.
InitBoot ==
    /\ config \in Configs
    /\ travis = [r \in Repos |-> <<EnvVar(1, KeyName), EnvVar(2, SecretName)>>]
    /\ cp = NewPusher(travis)
    /\ store = {}
    /\ nextId = 1
    /\ now = 0
    /\ budget = MaxTime
    /\ capped = TRUE
    /\ InitSlots

\* Any configuration, any target, a pusher yet to be constructed, and a user
\* the rotator has not touched.
InitPush ==
    /\ config \in Configs
    /\ travis \in [Repos -> EnvLists]
    /\ cp = NewPusher(travis)
    /\ store = {}
    /\ nextId = 1
    /\ now = 0
    /\ budget = 0
    /\ capped = TRUE
    /\ InitSlots

\* A freshly created IAM user: no access keys, in a store that enforces the key
\* limit or in one that applies every create.
Init ==
    /\ InitDemoPusher
    /\ store = {}
    /\ nextId = 1
    /\ now = 0
    /\ budget = MaxTime
    /\ capped \in BOOLEAN
    /\ InitSlots

\* A user without keys, in a store that enforces the key limit or in one that
\* does not.
InitOverlap ==
    /\ InitDemoPusher
    /\ store = {}
    /\ nextId = 1
    /\ now = 0
    /\ budget = MaxOverlapRuns
    /\ capped \in BOOLEAN
    /\ InitSlots

\* Key sets the rotator may find when it did not build them itself.  Ids are
\* opaque, so they are numbered in the order of the creation timestamps.
InitStores ==
    UNION {
        {{[id |-> i, created |-> c[i], status |-> s[i]] : i \in 1..n} :
            c \in {d \in [1..n -> 1..MaxInitTime] :
                      \A i, j \in 1..n : i < j => d[i] <= d[j]},
            s \in [1..n -> Statuses]}
        : n \in 0..MaxInitKeys}

InitAny ==
    /\ InitDemoPusher
    /\ store \in InitStores
    /\ nextId = Cardinality(store) + 1
    /\ now = MaxInitTime
    /\ budget = MaxAnyRuns
    /\ capped = (Cardinality(store) <= KeyLimit)
    /\ InitSlots

\* --------------------------------------------------------------- actions
\* The schedule fires the Lambda of a rotator that index.ts could construct, which
\* runs in the first free instance; the
\* trigger does not overlap invocations.
Invoke(p) ==
    /\ cp.state = "built"
    /\ UNCHANGED pusherVars
    /\ \A q \in Slots : ~Running(q)
    /\ \A q \in Slots : q < p => Running(q)
    /\ budget > 0
    /\ budget' = budget - 1
    /\ now' = now + 1
    /\ pc' = [pc EXCEPT ![p] = "list"]
    /\ startedAt' = [startedAt EXCEPT ![p] = now + 1]
    /\ accessKeys' = [accessKeys EXCEPT ![p] = <<>>]
    /\ newKey' = [newKey EXCEPT ![p] = NoKey]
    /\ thrown' = [thrown EXCEPT ![p] = "none"]
    /\ calls' = [calls EXCEPT ![p] = <<>>]
    /\ log' = [log EXCEPT ![p] = <<>>]
    /\ outcome' = [outcome EXCEPT ![p] = "pending"]
    /\ UNCHANGED <<store, nextId, capped, pushes, faults, overlapped>>

\* The schedule fires the Lambda while an earlier invocation is still running:
\* nothing in the code holds the second one back.
InvokeOverlapping(p) ==
    /\ cp.state = "built"
    /\ UNCHANGED pusherVars
    /\ \E q \in Slots : Running(q)
    /\ ~Running(p)
    /\ \A q \in Slots : q < p => Running(q)
    /\ budget > 0
    /\ budget' = budget - 1
    /\ now' = now + 1
    /\ overlapped' = TRUE
    /\ pc' = [pc EXCEPT ![p] = "list"]
    /\ startedAt' = [startedAt EXCEPT ![p] = now + 1]
    /\ accessKeys' = [accessKeys EXCEPT ![p] = <<>>]
    /\ newKey' = [newKey EXCEPT ![p] = NoKey]
    /\ thrown' = [thrown EXCEPT ![p] = "none"]
    /\ calls' = [calls EXCEPT ![p] = <<>>]
    /\ log' = [log EXCEPT ![p] = <<>>]
    /\ outcome' = [outcome EXCEPT ![p] = "pending"]
    /\ UNCHANGED <<store, nextId, capped, pushes, faults>>

\* await listIAMAccessKeys, the sort, the listing log and the branch.
ListKeys(p) ==
    /\ UNCHANGED pusherVars
    /\ pc[p] = "list"
    /\ \E ok \in BOOLEAN : \E order \in Perms(store) :
        LET keys == SortKeys(order)
            step == NextStep(keys)
            call == Call("list", 0, "-", "-", 0, ok)
        IN  /\ calls' = [calls EXCEPT ![p] = Append(@, call)]
            /\ faults' = IF ok THEN faults ELSE faults + 1
            /\ IF ~ok
               THEN /\ thrown' = [thrown EXCEPT ![p] = "store_error"]
                    /\ log' = [log EXCEPT ![p] = Append(@, "unhandled")]
                    /\ outcome' = [outcome EXCEPT ![p] = "resolved"]
                    /\ pc' = [pc EXCEPT ![p] = "done"]
                    /\ UNCHANGED accessKeys
               ELSE /\ accessKeys' = [accessKeys EXCEPT ![p] = keys]
                    /\ IF step \in Fatal
                       THEN /\ thrown' = [thrown EXCEPT ![p] = step]
                            /\ log' = [log EXCEPT ![p] = @ \o <<"keys", "unhandled">>]
                            /\ outcome' = [outcome EXCEPT ![p] = "resolved"]
                            /\ pc' = [pc EXCEPT ![p] = "done"]
                       ELSE /\ log' = [log EXCEPT ![p] = @ \o
                                  (IF step = "invalidate" THEN <<"keys", "invalidating">>
                                   ELSE IF step = "delete" THEN <<"keys", "deleting">>
                                   ELSE <<"keys">>)]
                            /\ pc' = [pc EXCEPT ![p] = step]
                            /\ UNCHANGED <<thrown, outcome>>
    /\ UNCHANGED <<store, nextId, now, budget, overlapped, capped, pushes, startedAt,
                   newKey>>

\* await createIAMAccessKey.
CreateKey(p) ==
    /\ UNCHANGED pusherVars
    /\ pc[p] = "create"
    /\ \E ok \in BOOLEAN : \E s \in Secrets :
        IF ok /\ (capped => Cardinality(store) < KeyLimit)
        THEN /\ store' = store \cup
                    {[id |-> nextId, created |-> now, status |-> "Active"]}
             /\ nextId' = nextId + 1
             /\ newKey' = [newKey EXCEPT ![p] = [id |-> nextId, secret |-> s]]
             /\ calls' = [calls EXCEPT ![p] =
                    Append(@, Call("create", nextId, s, "Active", 0, TRUE))]
             /\ log' = [log EXCEPT ![p] = Append(@, "created")]
             /\ pc' = [pc EXCEPT ![p] = "sleep"]
             /\ UNCHANGED <<thrown, outcome, faults>>
        ELSE /\ calls' = [calls EXCEPT ![p] =
                    Append(@, Call("create", 0, "-", "-", 0, FALSE))]
             /\ faults' = faults + 1
             /\ thrown' = [thrown EXCEPT ![p] = "store_error"]
             /\ log' = [log EXCEPT ![p] = Append(@, "unhandled")]
             /\ outcome' = [outcome EXCEPT ![p] = "resolved"]
             /\ pc' = [pc EXCEPT ![p] = "done"]
             /\ UNCHANGED <<store, nextId, newKey>>
    /\ UNCHANGED <<now, budget, overlapped, capped, pushes, startedAt, accessKeys>>

\* await sleepSeconds(1).
Sleep(p) ==
    /\ UNCHANGED pusherVars
    /\ pc[p] = "sleep"
    /\ calls' = [calls EXCEPT ![p] =
            Append(@, Call("sleep", 0, "-", "-", GraceSeconds, TRUE))]
    /\ pc' = [pc EXCEPT ![p] = "push"]
    /\ UNCHANGED <<store, nextId, now, budget, overlapped, capped, pushes, faults,
                   startedAt, accessKeys, newKey, thrown, log, outcome>>

\* Mutant: the callback is handed the key id without the secret of the created key.
PushWithoutSecret(p) ==
    /\ UNCHANGED pusherVars
    /\ pc[p] = "push"
    /\ \E ok \in BOOLEAN :
        /\ calls' = [calls EXCEPT ![p] =
                Append(@, Call("distribute", newKey[p].id, NoKey.secret, "-", 0, ok))]
        /\ pushes' = Append(pushes, [id |-> newKey[p].id, ok |-> ok])
        /\ log' = [log EXCEPT ![p] = @ \o
                (IF ok THEN <<"pushing", "complete">>
                 ELSE <<"pushing", "push_unhandled", "complete">>)]
    /\ outcome' = [outcome EXCEPT ![p] = "resolved"]
    /\ pc' = [pc EXCEPT ![p] = "done"]
    /\ UNCHANGED <<store, nextId, now, budget, overlapped, capped, faults, startedAt,
                   accessKeys, newKey, thrown>>

\* Mutant: the callback does not catch what credentialPusher.push throws.
PushRethrows(p) ==
    /\ UNCHANGED pusherVars
    /\ pc[p] = "push"
    /\ \E ok \in BOOLEAN :
        /\ calls' = [calls EXCEPT ![p] =
                Append(@, Call("distribute", newKey[p].id, newKey[p].secret, "-", 0, ok))]
        /\ pushes' = Append(pushes, [id |-> newKey[p].id, ok |-> ok])
        /\ log' = [log EXCEPT ![p] = @ \o
                (IF ok THEN <<"pushing", "complete">> ELSE <<"pushing", "unhandled">>)]
        /\ thrown' = [thrown EXCEPT ![p] = IF ok THEN @ ELSE "push_error"]
    /\ outcome' = [outcome EXCEPT ![p] = "resolved"]
    /\ pc' = [pc EXCEPT ![p] = "done"]
    /\ UNCHANGED <<store, nextId, now, budget, overlapped, capped, faults, startedAt,
                   accessKeys, newKey>>

\* Mutant: a push that failed is attempted a second time.
PushRetries(p) ==
    /\ UNCHANGED pusherVars
    /\ pc[p] = "push"
    /\ \E ok \in BOOLEAN :
        LET once == Call("distribute", newKey[p].id, newKey[p].secret, "-", 0, ok)
            again == Call("distribute", newKey[p].id, newKey[p].secret, "-", 0, TRUE)
        IN
        /\ calls' = [calls EXCEPT ![p] =
                IF ok THEN Append(@, once) ELSE @ \o <<once, again>>]
        /\ pushes' = IF ok THEN Append(pushes, [id |-> newKey[p].id, ok |-> TRUE])
                     ELSE pushes \o <<[id |-> newKey[p].id, ok |-> FALSE],
                                      [id |-> newKey[p].id, ok |-> TRUE]>>
        /\ log' = [log EXCEPT ![p] = @ \o <<"pushing", "complete">>]
    /\ outcome' = [outcome EXCEPT ![p] = "resolved"]
    /\ pc' = [pc EXCEPT ![p] = "done"]
    /\ UNCHANGED <<store, nextId, now, budget, overlapped, capped, faults, startedAt,
                   accessKeys, newKey, thrown>>

\* await onNewCredentials(newKey.AccessKeyId, newKey.SecretAccessKey): the
\* callback catches what credentialPusher.push throws.
Push(p) ==
    /\ UNCHANGED pusherVars
    /\ pc[p] = "push"
    /\ \E ok \in BOOLEAN :
        /\ calls' = [calls EXCEPT ![p] =
                Append(@, Call("distribute", newKey[p].id, newKey[p].secret, "-", 0, ok))]
        /\ pushes' = Append(pushes, [id |-> newKey[p].id, ok |-> ok])
        /\ log' = [log EXCEPT ![p] = @ \o
                (IF ok THEN <<"pushing", "complete">>
                 ELSE <<"pushing", "push_unhandled", "complete">>)]
    /\ outcome' = [outcome EXCEPT ![p] = "resolved"]
    /\ pc' = [pc EXCEPT ![p] = "done"]
    /\ UNCHANGED <<store, nextId, now, budget, overlapped, capped, faults, startedAt,
                   accessKeys, newKey, thrown>>

\* What the catch block of rotateIAMUserKeys leaves behind.
Caught(p, call) ==
    /\ calls' = [calls EXCEPT ![p] = Append(@, call)]
    /\ thrown' = [thrown EXCEPT ![p] = "store_error"]
    /\ faults' = faults + 1
    /\ log' = [log EXCEPT ![p] = Append(@, "unhandled")]
    /\ outcome' = [outcome EXCEPT ![p] = "resolved"]
    /\ pc' = [pc EXCEPT ![p] = "done"]

\* The end of the try block.
Completed(p, call) ==
    /\ calls' = [calls EXCEPT ![p] = Append(@, call)]
    /\ log' = [log EXCEPT ![p] = Append(@, "complete")]
    /\ outcome' = [outcome EXCEPT ![p] = "resolved"]
    /\ pc' = [pc EXCEPT ![p] = "done"]
    /\ UNCHANGED <<thrown, faults>>

\* Mutant: the "Active" case has no break and falls through to the delete.
InvalidateKeyFallsThrough(p) ==
    /\ UNCHANGED pusherVars
    /\ pc[p] = "invalidate"
    /\ LET id == OlderKey(accessKeys[p]).id IN
       \E ok \in BOOLEAN :
        IF ok /\ \E k \in store : k.id = id
        THEN /\ store' = {IF k.id = id THEN [k EXCEPT !.status = "Inactive"] ELSE k :
                            k \in store}
             /\ calls' = [calls EXCEPT ![p] =
                    Append(@, Call("update", id, "-", "Inactive", 0, TRUE))]
             /\ log' = [log EXCEPT ![p] = Append(@, "deleting")]
             /\ pc' = [pc EXCEPT ![p] = "delete"]
             /\ UNCHANGED <<thrown, outcome, faults>>
        ELSE /\ Caught(p, Call("update", id, "-", "Inactive", 0, FALSE))
             /\ UNCHANGED store
    /\ UNCHANGED <<nextId, now, budget, overlapped, capped, pushes, startedAt,
                   accessKeys, newKey>>

\* Mutant: the update is sent with the status the key already has.
InvalidateKeyKeepsStatus(p) ==
    /\ UNCHANGED pusherVars
    /\ pc[p] = "invalidate"
    /\ LET id == OlderKey(accessKeys[p]).id IN
       \E ok \in BOOLEAN :
        IF ok /\ \E k \in store : k.id = id
        THEN /\ store' = {IF k.id = id THEN [k EXCEPT !.status = "Active"] ELSE k :
                            k \in store}
             /\ Completed(p, Call("update", id, "-", "Active", 0, TRUE))
        ELSE /\ Caught(p, Call("update", id, "-", "Active", 0, FALSE))
             /\ UNCHANGED store
    /\ UNCHANGED <<nextId, now, budget, overlapped, capped, pushes, startedAt,
                   accessKeys, newKey>>

\* await updateIAMAccessKey(olderKey.AccessKeyId, "Inactive").
InvalidateKey(p) ==
    /\ UNCHANGED pusherVars
    /\ pc[p] = "invalidate"
    /\ LET id == OlderKey(accessKeys[p]).id IN
       \E ok \in BOOLEAN :
        IF ok /\ \E k \in store : k.id = id
        THEN /\ store' = {IF k.id = id THEN [k EXCEPT !.status = "Inactive"] ELSE k :
                            k \in store}
             /\ Completed(p, Call("update", id, "-", "Inactive", 0, TRUE))
        ELSE /\ Caught(p, Call("update", id, "-", "Inactive", 0, FALSE))
             /\ UNCHANGED store
    /\ UNCHANGED <<nextId, now, budget, overlapped, capped, pushes, startedAt,
                   accessKeys, newKey>>

\* await deleteIAMAccessKey(olderKey.AccessKeyId).
DeleteKey(p) ==
    /\ UNCHANGED pusherVars
    /\ pc[p] = "delete"
    /\ LET id == OlderKey(accessKeys[p]).id IN
       \E ok \in BOOLEAN :
        IF ok /\ \E k \in store : k.id = id
        THEN /\ store' = {k \in store : k.id # id}
             /\ Completed(p, Call("delete", id, "-", "-", 0, TRUE))
        ELSE /\ Caught(p, Call("delete", id, "-", "-", 0, FALSE))
             /\ UNCHANGED store
    /\ UNCHANGED <<nextId, now, budget, overlapped, capped, pushes, startedAt,
                   accessKeys, newKey>>

Next ==
    \E p \in Slots :
        \/ Invoke(p)
        \/ ListKeys(p)
        \/ CreateKey(p)
        \/ Sleep(p)
        \/ Push(p)
        \/ InvalidateKey(p)
        \/ DeleteKey(p)

\* Non-overlapping invocations on a user that starts without keys.
Spec == Init /\ [][Next]_vars

\* Non-overlapping invocations on any key set.
SpecAny == InitAny /\ [][Next]_vars

NextOverlap ==
    \/ Next
    \/ \E p \in Slots : InvokeOverlapping(p)

\* Invocations that may overlap, on a user that starts without keys.
SpecOverlap == InitOverlap /\ [][NextOverlap]_vars

\* The store's calls fail MaxFaults times at most: they do not fail forever.
NextLive ==
    \E p \in Slots :
        \/ Invoke(p)
        \/ ListKeys(p) /\ faults' <= MaxFaults
        \/ CreateKey(p) /\ faults' <= MaxFaults
        \/ Sleep(p)
        \/ Push(p)
        \/ InvalidateKey(p) /\ faults' <= MaxFaults
        \/ DeleteKey(p) /\ faults' <= MaxFaults

\* The schedule keeps firing and a started invocation runs to its end.
SpecLive == InitLive /\ [][NextLive]_vars /\ WF_vars(NextLive)

\* ---------------------------------------------- actions of the pusher
\* new CredentialPusher(service, config): throws when validation returns an error.
Construct ==
    /\ cp.state = "unbuilt"
    /\ cp' = [cp EXCEPT !.state = IF ValidateConfiguration(config) # NoError
                                  THEN "rejected"
                                  ELSE "built"]
    /\ UNCHANGED <<config, travis>>
    /\ UNCHANGED rotatorVars

\* The promise of pushNewCredentials settles: "ok" when it resolves, the error
\* when it rejects.
Settle(c, result, target) ==
    [c EXCEPT !.pc = "idle",
              !.history = Append(@, [args |-> c.args, result |-> result,
                                     idx |-> c.idx, before |-> c.before,
                                     after |-> target])]

\* CredentialPusher.push, up to the first request of the loop over the projects.
StartPush ==
    /\ cp.state = "built"
    /\ cp.pc = "idle"
    /\ Len(cp.history) < MaxPushCalls
    /\ \E cred \in Credentials :
        LET started == [cp EXCEPT !.args = cred, !.idx = 1, !.before = travis,
                                  !.accessKeyEnvVarId = 0,
                                  !.secretAccessKeyEnvVarId = 0]
        IN
        cp' = IF ~config.projects.defined
              THEN Settle(started, "type_error", travis)
              ELSE IF Len(config.projects.list) = 0
                   THEN Settle(started, "ok", travis)
                   ELSE [started EXCEPT !.pc = "list"]
    /\ UNCHANGED <<config, travis>>
    /\ UNCHANGED rotatorVars

\* GET /repo/{slug}/env_vars and the lookup of the two variable ids.
ListEnvVars ==
    /\ cp.pc = "list"
    /\ \E resp \in {"env_vars", "no_env_vars", "failed"} :
        LET project == config.projects.list[cp.idx]
            sent == [cp EXCEPT !.requests = @ + 1]
            ids == ResolveEnvVarIds(travis[project.project], project)
        IN
        cp' = IF resp = "failed"
              THEN Settle(sent, "request_failed", travis)
              ELSE IF resp = "no_env_vars"
                   THEN Settle(sent, "no_list", travis)
                   ELSE IF ids.accessKeyEnvVarId = 0
                        THEN Settle(sent, "key_id_not_found", travis)
                        ELSE IF ids.secretAccessKeyEnvVarId = 0
                             THEN Settle(sent, "secret_not_found", travis)
                             ELSE [sent EXCEPT
                                      !.pc = "patch_key_id",
                                      !.accessKeyEnvVarId = ids.accessKeyEnvVarId,
                                      !.secretAccessKeyEnvVarId = ids.secretAccessKeyEnvVarId]
    /\ UNCHANGED <<config, travis>>
    /\ UNCHANGED rotatorVars

\* PATCH of the key id's variable: the new key id, public.
PatchAccessKeyId ==
    /\ cp.pc = "patch_key_id"
    /\ \E ok \in BOOLEAN :
        LET project == config.projects.list[cp.idx]
            sent == [cp EXCEPT !.requests = @ + 1]
        IN
        IF ok
        THEN /\ travis' = [travis EXCEPT ![project.project] =
                              PatchEnvVar(@, cp.accessKeyEnvVarId, cp.args.id, TRUE)]
             /\ cp' = [sent EXCEPT !.pc = "patch_secret"]
        ELSE /\ cp' = Settle(sent, "request_failed", travis)
             /\ UNCHANGED travis
    /\ UNCHANGED config
    /\ UNCHANGED rotatorVars

\* PATCH of the secret's variable: the new secret, not public; then the next
\* project, or the end of the loop.
PatchSecretAccessKey ==
    /\ cp.pc = "patch_secret"
    /\ \E ok \in BOOLEAN :
        LET project == config.projects.list[cp.idx]
            sent == [cp EXCEPT !.requests = @ + 1]
            patched == [travis EXCEPT ![project.project] =
                           PatchEnvVar(@, cp.secretAccessKeyEnvVarId, cp.args.secret, FALSE)]
        IN
        IF ok
        THEN /\ travis' = patched
             /\ cp' = IF cp.idx < Len(config.projects.list)
                      THEN [sent EXCEPT !.pc = "list", !.idx = @ + 1]
                      ELSE Settle(sent, "ok", patched)
        ELSE /\ cp' = Settle(sent, "request_failed", travis)
             /\ UNCHANGED travis
    /\ UNCHANGED config
    /\ UNCHANGED rotatorVars

NextPush ==
    \/ Construct
    \/ StartPush
    \/ ListEnvVars
    \/ PatchAccessKeyId
    \/ PatchSecretAccessKey

NextBoot ==
    \/ Construct
    \/ Next

\* index.ts: the pusher is constructed, then the rotator runs on its schedule.
SpecBoot == InitBoot /\ [][NextBoot]_vars

\* The pusher alone: any configuration against any target.
SpecPush == InitPush /\ [][NextPush]_vars

\* ------------------------------------------------- vocabulary of the claims
Done(p) == pc[p] = "done"

\* The invocation fired last has finished (invocations do not overlap).
Latest(p) == Done(p) /\ startedAt[p] = now

\* The listing succeeded, so the invocation holds a snapshot.
Listed(p) == Len(calls[p]) >= 1 /\ calls[p][1].op = "list" /\ calls[p][1].ok

\* The keys of the listing the invocation worked on.
Snapshot(p) == {accessKeys[p][i] : i \in DOMAIN accessKeys[p]}

CountCalls(p, op) == Cardinality({i \in DOMAIN calls[p] : calls[p][i].op = op})

Mutations == {"create", "update", "delete"}

CountMutations(p) ==
    Cardinality({i \in DOMAIN calls[p] : calls[p][i].op \in Mutations})

\* Two keys, one of them strictly older by creation timestamp.
HasOlder(S) ==
    /\ Cardinality(S) = 2
    /\ \E k \in S : \A j \in S \ {k} : k.created < j.created

OlderOf(S) == CHOOSE k \in S : \A j \in S \ {k} : k.created < j.created

NewerOf(S) == CHOOSE k \in S : \A j \in S \ {k} : k.created > j.created

\* ---------------------------------------------------------------- claims

\* C1: from 0 keys and with invocations that never overlap, the user never
\* holds more than 2 access keys, in any reachable state.
C1_KeyCountAtMostTwo == Cardinality(store) <= 2

\* Two keys are held after a full create / invalidate / delete cycle.
C1_Witness == Cardinality(store) = 2 /\ nextId >= 4 /\ \A p \in Slots : ~Running(p)

\* C2: on a snapshot of 0 or 1 keys (whatever the status of the single key)
\* the invocation issues exactly one create; once the create has completed it
\* sleeps the grace period and then calls the distributor exactly once, with
\* the id and secret of the key just created; it issues no status update and
\* no delete, and the store gains exactly the created key.
C2_CreateThenDistribute ==
    \A p \in Slots :
        (Done(p) /\ Listed(p) /\ Cardinality(Snapshot(p)) <= 1) =>
            LET c == calls[p] IN
            /\ Len(c) >= 2
            /\ c[2].op = "create"
            /\ CountCalls(p, "create") = 1
            /\ CountCalls(p, "update") = 0
            /\ CountCalls(p, "delete") = 0
            /\ IF c[2].ok
               THEN /\ Len(c) = 4
                    /\ c[3].op = "sleep" /\ c[3].secs = GraceSeconds
                    /\ c[4].op = "distribute"
                    /\ c[4].id = c[2].id /\ c[4].secret = c[2].secret
                    /\ c[2].id \notin {k.id : k \in Snapshot(p)}
                    /\ Latest(p) => store = Snapshot(p) \cup
                           {[id |-> c[2].id, created |-> now, status |-> "Active"]}
               ELSE /\ Len(c) = 2
                    /\ Latest(p) => store = Snapshot(p)

\* A lone Inactive key: the create went through and the push was made.
C2_Witness ==
    \E p \in Slots :
        /\ Latest(p) /\ Listed(p)
        /\ \E k \in Snapshot(p) : Snapshot(p) = {k} /\ k.status = "Inactive"
        /\ Len(calls[p]) = 4 /\ calls[p][4].op = "distribute" /\ calls[p][4].ok
        /\ Cardinality(store) = 2

\* C3: on a snapshot of exactly 2 keys whose older key (by creation timestamp)
\* is Active, the invocation issues exactly one status update, which sets that
\* older key to Inactive, and no create, delete or distribution call; the
\* newer key is left unchanged.
C3_InvalidateOlder ==
    \A p \in Slots :
        (Done(p) /\ Listed(p) /\ HasOlder(Snapshot(p))
            /\ OlderOf(Snapshot(p)).status = "Active") =>
            LET c == calls[p]
                older == OlderOf(Snapshot(p))
                newer == NewerOf(Snapshot(p))
            IN
            /\ Len(c) = 2
            /\ c[2].op = "update" /\ c[2].id = older.id /\ c[2].status = "Inactive"
            /\ Latest(p) => store =
                   IF c[2].ok THEN {newer, [older EXCEPT !.status = "Inactive"]}
                   ELSE {newer, older}

\* Two Active keys were found and the older one is now Inactive.
C3_Witness ==
    \E p \in Slots :
        /\ Latest(p) /\ Listed(p) /\ HasOlder(Snapshot(p))
        /\ OlderOf(Snapshot(p)).status = "Active"
        /\ NewerOf(Snapshot(p)).status = "Active"
        /\ calls[p][2].ok
        /\ [OlderOf(Snapshot(p)) EXCEPT !.status = "Inactive"] \in store

\* C4: on a snapshot of exactly 2 keys whose older key is Inactive, the
\* invocation issues exactly one delete, of that older key, and no create,
\* status update or distribution call; only the newer key is left.
C4_DeleteOlder ==
    \A p \in Slots :
        (Done(p) /\ Listed(p) /\ HasOlder(Snapshot(p))
            /\ OlderOf(Snapshot(p)).status = "Inactive") =>
            LET c == calls[p]
                older == OlderOf(Snapshot(p))
                newer == NewerOf(Snapshot(p))
            IN
            /\ Len(c) = 2
            /\ c[2].op = "delete" /\ c[2].id = older.id
            /\ Latest(p) => store = IF c[2].ok THEN {newer} ELSE {newer, older}

\* The Inactive older key was found and is gone; the newer key is all there is.
C4_Witness ==
    \E p \in Slots :
        /\ Latest(p) /\ Listed(p) /\ HasOlder(Snapshot(p))
        /\ OlderOf(Snapshot(p)).status = "Inactive"
        /\ calls[p][2].ok
        /\ store = {NewerOf(Snapshot(p))}

\* The snapshot breaks the invariant: more than 2 keys, or 2 keys whose older
\* key is neither Active nor Inactive.
InvariantViolation(S) ==
    \/ Cardinality(S) > 2
    \/ HasOlder(S) /\ OlderOf(S).status \notin {"Active", "Inactive"}

\* C5: on an invariant-violating snapshot the invocation issues no create, no
\* status update, no delete and no distribution call, and the key set is left
\* as it was.
C5_FatalDoesNotMutate ==
    \A p \in Slots :
        (Done(p) /\ Listed(p) /\ InvariantViolation(Snapshot(p))) =>
            /\ Len(calls[p]) = 1
            /\ Latest(p) => store = Snapshot(p)

\* Three keys were found: the invocation threw and the store still holds them.
C5_Witness ==
    \E p \in Slots :
        /\ Latest(p) /\ Listed(p) /\ Cardinality(Snapshot(p)) > 2
        /\ thrown[p] = "fatal_count"
        /\ store = Snapshot(p)

\* C6: an invocation that met a fatal condition ends in an error outcome its
\* caller can observe, unlike a normally completed step and unlike a caught
\* transient failure.
C6_FatalIsSurfaced ==
    \A p \in Slots :
        (Done(p) /\ thrown[p] \in Fatal) => outcome[p] = "rejected"

\* What happened in a finished invocation.
DidCreateAndDistribute(p) ==
    \E i, j \in DOMAIN calls[p] :
        /\ i < j
        /\ calls[p][i].op = "create" /\ calls[p][i].ok
        /\ calls[p][j].op = "distribute"

DidInvalidate(p) ==
    \E i \in DOMAIN calls[p] : calls[p][i].op = "update" /\ calls[p][i].ok

DidDelete(p) ==
    \E i \in DOMAIN calls[p] : calls[p][i].op = "delete" /\ calls[p][i].ok

DidFatalAbort(p) == thrown[p] \in Fatal

ActionsTaken(p) ==
    Cardinality({a \in {"create", "invalidate", "delete", "fatal"} :
        \/ a = "create" /\ DidCreateAndDistribute(p)
        \/ a = "invalidate" /\ DidInvalidate(p)
        \/ a = "delete" /\ DidDelete(p)
        \/ a = "fatal" /\ DidFatalAbort(p)})

StoreCallsSucceeded(p) ==
    \A i \in DOMAIN calls[p] :
        calls[p][i].op \in Mutations \cup {"list"} => calls[p][i].ok

\* C7 as stated: every invocation, failing calls included, takes exactly one
\* of create+distribute, invalidate, delete, fatal abort.
C7_ExactlyOneAction ==
    \A p \in Slots : Done(p) => ActionsTaken(p) = 1

\* C7, amended: every invocation takes at most one of create+distribute,
\* invalidate, delete, fatal abort and issues at most one store mutation; it
\* takes exactly one when none of its store calls fails (a failing
\* distributor call included).
C7_AtMostOneAction ==
    \A p \in Slots :
        Done(p) =>
            /\ ActionsTaken(p) <= 1
            /\ CountMutations(p) <= 1
            /\ StoreCallsSucceeded(p) => ActionsTaken(p) = 1

\* A key was created and the push of it failed: one action, one mutation.
C7_Witness ==
    \E p \in Slots :
        /\ Done(p) /\ DidCreateAndDistribute(p)
        /\ ~calls[p][Len(calls[p])].ok
        /\ ActionsTaken(p) = 1
        /\ CountMutations(p) = 1

\* C8: from 0 keys and without overlap, a key that is deleted or whose status
\* is changed is the older of two keys: the key with the newest creation
\* timestamp is never the target of a delete or of a status update.
C8_NewestKeyUntouched ==
    [][\A k \in store :
          k \notin store' =>
              /\ Cardinality(store) = 2
              /\ \E j \in store : j.created > k.created /\ j \in store']_vars

\* A delete has just been applied and the newer, Active key is what remains.
C8_Witness ==
    \E p \in Slots :
        /\ Latest(p) /\ Len(calls[p]) = 2
        /\ calls[p][2].op = "delete" /\ calls[p][2].ok
        /\ \E k \in store :
            store = {k} /\ k.status = "Active" /\ k.id > calls[p][2].id
        /\ nextId >= 4

C10_AtMostOneInactive ==
    Cardinality({k \in store : k.status = "Inactive"}) <= 1

\* One of the two keys held is Inactive.
C10_Witness ==
    /\ Cardinality(store) = 2
    /\ Cardinality({k \in store : k.status = "Inactive"}) = 1
    /\ nextId >= 4

\* C11: the distributor is called only inside the invocation that created a
\* key, and only with that key; no key is handed to it twice, so a push that
\* failed is not attempted again by a later invocation.
C11_DistributedOnceAtCreation ==
    /\ \A i, j \in DOMAIN pushes : i # j => pushes[i].id # pushes[j].id
    /\ \A p \in Slots : \A i \in DOMAIN calls[p] :
        calls[p][i].op = "distribute" =>
            \E j \in DOMAIN calls[p] :
                /\ j < i
                /\ calls[p][j].op = "create" /\ calls[p][j].ok
                /\ calls[p][j].id = calls[p][i].id

\* The push of the second key failed; the next two invocations invalidated and
\* deleted its predecessor without a failure; the key is the only, Active key
\* and it was handed to the distributor that one time.
C11_Witness ==
    /\ \A p \in Slots : ~Running(p)
    /\ faults = 0
    /\ \E i \in DOMAIN pushes : \E k \in store :
        /\ ~pushes[i].ok
        /\ k.id = pushes[i].id /\ k.status = "Active"
        /\ store = {k} /\ k.id >= 2
        /\ now >= k.created + 2
        /\ Cardinality({n \in DOMAIN pushes : pushes[n].id = k.id}) = 1

\* No IAM call and no push has failed so far.
NoFailures == faults = 0 /\ \A i \in DOMAIN pushes : pushes[i].ok

Quiescent == \A p \in Slots : ~Running(p)

\* The invocation fired n intervals after time c has ended.
EndedAfter(c, n) == now > c + n \/ (now = c + n /\ Quiescent)

C13_ActiveAtMostTwoIntervals ==
    NoFailures =>
        \A k \in store : EndedAfter(k.created, 2) => k.status # "Active"

\* Two invocations created a key each from the same listing.
DoubleCreate ==
    \E p, q \in Slots :
        /\ p # q
        /\ Listed(p) /\ Listed(q) /\ accessKeys[p] = accessKeys[q]
        /\ newKey[p] # NoKey /\ newKey[q] # NoKey

\* The key handed to the distributor last is the newest key (ids are issued in
\* the order of creation).
LastHandedIsNewest ==
    IF pushes = <<>> THEN store = {}
    ELSE \A k \in store : k.id <= pushes[Len(pushes)].id

\* C14: overlapping invocations reach what runs without overlap never reach:
\* as long as no invocation was fired during another one there is no double
\* create, the user has at most 2 keys, and between invocations the key handed
\* to the distributor last is the newest one; a store that caps the count
\* never holds more than 2 keys either way.
C14_OnlyOverlapBreaks ==
    /\ ~overlapped =>
        /\ ~DoubleCreate
        /\ Cardinality(store) <= KeyLimit
        /\ Quiescent => LastHandedIsNewest
    /\ capped => Cardinality(store) <= KeyLimit

\* Two overlapping invocations listed the same single key and each created a
\* key: 3 keys in a store without cap, and the push made last was not the one
\* of the newest key.
C14_Witness ==
    /\ overlapped /\ ~capped /\ Quiescent
    /\ DoubleCreate
    /\ Cardinality(store) = 3
    /\ ~LastHandedIsNewest

OldestOf(S) == CHOOSE k \in S : \A j \in S : k.created <= j.created

\* C18: every invocation marks the oldest Active key invalid and deletes the
\* oldest Inactive key.
C18_EveryRunInvalidatesAndDeletes ==
    \A p \in Slots :
        (Latest(p) /\ Listed(p) /\ thrown[p] = "none") =>
            LET active == {k \in Snapshot(p) : k.status = "Active"}
                inactive == {k \in Snapshot(p) : k.status = "Inactive"}
            IN
            /\ active # {} =>
                \E i \in DOMAIN calls[p] :
                    /\ calls[p][i].op = "update" /\ calls[p][i].ok
                    /\ calls[p][i].id = OldestOf(active).id
            /\ inactive # {} =>
                \E i \in DOMAIN calls[p] :
                    /\ calls[p][i].op = "delete" /\ calls[p][i].ok
                    /\ calls[p][i].id = OldestOf(inactive).id

\* C20: a key enters the store Active, its status changes only from Active to
\* Inactive, and it leaves the store only when Inactive; the step that changes
\* or removes a key belongs to a later invocation than the one that created
\* it, and no invocation makes more than one of these steps.
C20_Lifecycle ==
    [][/\ \A k \in store' :
            (\A j \in store : j.id # k.id) => k.status = "Active"
       /\ \A k \in store : \A j \in store' :
            (j.id = k.id /\ j # k) =>
                k.status = "Active" /\ j = [k EXCEPT !.status = "Inactive"]
       /\ \A k \in store :
            (\A j \in store' : j.id # k.id) => k.status = "Inactive"
       /\ \A k \in store : k \notin store' => k.created < now
       /\ \A p \in Slots :
            Cardinality({i \in DOMAIN calls'[p] :
                calls'[p][i].op \in Mutations /\ calls'[p][i].ok}) <= 1]_vars

\* A key that was not the user's first has been created, set Inactive and, in
\* the invocation that just ended, deleted.
C20_Witness ==
    \E p \in Slots :
        /\ Latest(p) /\ Listed(p) /\ Len(calls[p]) = 2
        /\ calls[p][2].op = "delete" /\ calls[p][2].ok
        /\ \E k \in Snapshot(p) :
            /\ k.id = calls[p][2].id /\ k.id >= 2 /\ k.status = "Inactive"
            /\ now >= k.created + 5
            /\ \A j \in store : j.id # k.id

\* ------------------------------------------------------------ the pusher
\* What validation is there to refuse, stated on the configuration alone.
InvalidConfig ==
    \/ config.accessKey = ""
    \/ ~config.projects.defined
    \/ config.projects.list = <<>>

\* C15: the constructor of CredentialPusher throws for a configuration without
\* access key or without projects (missing or empty list), and only for those;
\* a pusher whose construction threw never pushes, sends no request and leaves
\* the target and the key store untouched.
C15_InvalidConfigRejected ==
    /\ cp.state # "unbuilt" => (cp.state = "rejected" <=> InvalidConfig)
    /\ cp.state # "built" =>
          /\ cp.pc = "idle"
          /\ cp.history = <<>>
          /\ cp.requests = 0
          /\ travis = cp.before
          /\ store = {}
          /\ pushes = <<>>
          /\ \A p \in Slots : pc[p] = "idle" /\ calls[p] = <<>>

C15_Witness ==
    /\ cp.state = "rejected"
    /\ config.accessKey = "token"
    /\ config.projects.defined
    /\ config.projects.list = <<>>

\* A name resolves when the target lists a variable of that name with an id.
Resolvable(envVars, name) ==
    \E i \in DOMAIN envVars : envVars[i].name = name /\ envVars[i].id # 0

Holds(envVars, name, value, public) ==
    \E i \in DOMAIN envVars :
        /\ envVars[i].name = name
        /\ envVars[i].id # 0
        /\ envVars[i].value = value
        /\ envVars[i].public = public

NotFound == {"key_id_not_found", "secret_not_found"}

RequestErrors == {"request_failed", "no_list"}

\* C16: in a push whose requests all get through, every project the loop
\* reaches either has a location name that does not resolve, and then the push
\* ends there with a not-found error and the project's variables are as they
\* were, or has both names resolve, and then both variables hold the new pair.
C16_NotFoundOrBothOverwritten ==
    \A n \in DOMAIN cp.history :
        LET h == cp.history[n] IN
        h.result \notin RequestErrors =>
            \A j \in 1..h.idx :
                LET project == config.projects.list[j]
                    was == h.before[project.project]
                    is == h.after[project.project]
                IN
                IF /\ Resolvable(was, project.accessKeyIDLocation)
                   /\ Resolvable(was, project.secretAccessKeyLocation)
                THEN /\ j < h.idx \/ h.result = "ok"
                     /\ Holds(is, project.accessKeyIDLocation, h.args.id, TRUE)
                     /\ Holds(is, project.secretAccessKeyLocation, h.args.secret, FALSE)
                ELSE /\ j = h.idx
                     /\ h.result \in NotFound
                     /\ is = was

\* C16 (amended): as C16, for two names that differ; a project whose two
\* locations carry one name ends the push with a not-found error for the
\* secret, its variables as they were, even when the name resolves.
C16_DistinctNamesOverwritten ==
    \A n \in DOMAIN cp.history :
        LET h == cp.history[n] IN
        h.result \notin RequestErrors =>
            \A j \in 1..h.idx :
                LET project == config.projects.list[j]
                    was == h.before[project.project]
                    is == h.after[project.project]
                IN
                IF /\ Resolvable(was, project.accessKeyIDLocation)
                   /\ Resolvable(was, project.secretAccessKeyLocation)
                   /\ project.accessKeyIDLocation # project.secretAccessKeyLocation
                THEN /\ j < h.idx \/ h.result = "ok"
                     /\ Holds(is, project.accessKeyIDLocation, h.args.id, TRUE)
                     /\ Holds(is, project.secretAccessKeyLocation, h.args.secret, FALSE)
                ELSE /\ j = h.idx
                     /\ is = was
                     /\ h.result = IF Resolvable(was, project.accessKeyIDLocation)
                                   THEN "secret_not_found"
                                   ELSE "key_id_not_found"

\* A push that overwrote both variables of its first project and ended at the
\* second, which lists no variable for the secret.
C16_Witness ==
    \E n \in DOMAIN cp.history :
        LET h == cp.history[n]
            first == config.projects.list[1].project
            second == config.projects.list[2].project
        IN
        /\ Len(config.projects.list) = 2
        /\ h.idx = 2
        /\ h.result = "secret_not_found"
        /\ h.after[second] = h.before[second]
        /\ h.before[second] = <<EnvVar(1, KeyName)>>
        /\ Holds(h.after[first], KeyName, h.args.id, TRUE)
        /\ Holds(h.after[first], SecretName, h.args.secret, FALSE)
        /\ h.after[first] # h.before[first]

\* C17: when pushNewCredentials is called twice in a row with the same pair
\* and every request of both calls gets through, the second call settles as
\* the first did and leaves the target as the first left it.
C17_PushIdempotent ==
    \A n \in DOMAIN cp.history :
        n > 1 =>
            LET first == cp.history[n - 1]
                second == cp.history[n]
            IN
            (/\ first.args = second.args
             /\ first.result \notin RequestErrors
             /\ second.result \notin RequestErrors) =>
                /\ second.result = first.result
                /\ second.after = first.after

C17_Witness ==
    /\ Len(cp.history) = 2
    /\ Len(config.projects.list) = 2
    /\ cp.history[1].args = cp.history[2].args
    /\ cp.history[1].result = "ok"
    /\ cp.history[2].result = "ok"
    /\ \A r \in Repos : cp.history[1].after[r] # cp.history[1].before[r]
    /\ cp.requests = 12

\* ------------------------------------------------------------- progress
IsOlderOfTwo(id) ==
    /\ Cardinality(store) = 2
    /\ \E k \in store : k.id = id /\ \A j \in store \ {k} : k.created < j.created

HasStatus(id, status) == \E k \in store : k.id = id /\ k.status = status

Gone(id) == id < nextId /\ \A k \in store : k.id # id

\* Firings still to come that no failure can use up: a failing store call ends
\* its invocation, so every failure costs one firing.
Spare == budget - (MaxFaults - faults)

\* C19: a listing that succeeds is the store's key set, whatever failed before;
\* and while the schedule fires and the store's calls fail only finitely often,
\* a key that is the older of two is invalidated and then deleted, and a user
\* with fewer than two keys gets a new key.
C19_RotationProgresses ==
    /\ [][\A p \in Slots :
             (pc[p] = "list" /\ pc'[p] # "list" /\ thrown'[p] # "store_error") =>
                 /\ Snapshot(p)' = store
                 /\ pc'[p] = IF Cardinality(store) <= 1 THEN "create"
                             ELSE IF HasStatus(OlderOf(store).id, "Active")
                                  THEN "invalidate"
                                  ELSE "delete"]_vars
    /\ \A id \in 1..MaxLiveRuns :
          (IsOlderOfTwo(id) /\ HasStatus(id, "Active") /\ Spare >= 2)
              ~> (IsOlderOfTwo(id) /\ HasStatus(id, "Inactive") /\ Spare >= 1)
    /\ \A id \in 1..MaxLiveRuns :
          (IsOlderOfTwo(id) /\ HasStatus(id, "Inactive") /\ Spare >= 1) ~> Gone(id)
    /\ \A n \in 1..MaxLiveRuns :
          (nextId = n /\ Cardinality(store) <= 1 /\ Spare >= 1) ~> nextId > n

\* Store calls have failed, as often as they may, and the rotation went on to
\* delete the first key and to create the third.
C19_Witness ==
    /\ faults = MaxFaults
    /\ Gone(1)
    /\ nextId = 4
    /\ Cardinality(store) = 2
    /\ Quiescent

\* ------------------------------------------------ what consumers hold
\* The key handed to the distributor last.
LastHanded == pushes[Len(pushes)]

\* C21: while no store call and no push has failed, the key handed to the
\* distributor last is in the store and Active, between invocations and
\* during them.
C21_LastHandedStaysActive ==
    (NoFailures /\ pushes # <<>>) => HasStatus(LastHanded.id, "Active")

\* Six invocations without a failure: the third key was handed out last and is
\* Active, next to its Inactive predecessor.
C21_Witness ==
    /\ NoFailures /\ Quiescent
    /\ Len(pushes) = 3
    /\ now = 6
    /\ HasStatus(3, "Active")
    /\ HasStatus(2, "Inactive")
    /\ LastHanded.id = 3

\* The invocation's last call was a push, and the push failed.
PushFailed(p) ==
    /\ calls[p] # <<>>
    /\ calls[p][Len(calls[p])].op = "distribute"
    /\ ~calls[p][Len(calls[p])].ok

\* The invocation whose push failed completes as a normal step: nothing reaches
\* the catch block, the last line logged is the completion line, the only
\* mutation issued is the create, and the created key is Active in the store.
FailedPushIsNormalStep ==
    \A p \in Slots :
        (Done(p) /\ PushFailed(p)) =>
            /\ thrown[p] = "none"
            /\ log[p][Len(log[p])] = "complete"
            /\ CountMutations(p) = 1
            /\ CountCalls(p, "delete") = 0
            /\ Latest(p) => HasStatus(newKey[p].id, "Active")

\* The latest invocation listed a key that the invocation before it created
\* and failed to hand out.
FollowsFailedPush(p, k) ==
    /\ Latest(p) /\ Listed(p)
    /\ k.created = startedAt[p] - 1
    /\ \E i \in DOMAIN pushes : pushes[i].id = k.id /\ ~pushes[i].ok

\* The key of the last push that succeeded, 0 when none did.
LastReceived ==
    LET good == {i \in DOMAIN pushes : pushes[i].ok} IN
    IF good = {} THEN 0
    ELSE pushes[CHOOSE i \in good : \A j \in good : j <= i].id

Invalidated(p, id) ==
    \E i \in DOMAIN calls[p] :
        calls[p][i].op = "update" /\ calls[p][i].ok /\ calls[p][i].id = id

\* C22: a failed push leaves the created key Active, is followed by no delete
\* and ends the invocation as a normal step; the invocation after it
\* invalidates the older key, and that key is the last one consumers received.
C22_NextInvalidatesLastReceived ==
    /\ FailedPushIsNormalStep
    /\ \A p \in Slots : \A k \in Snapshot(p) :
          FollowsFailedPush(p, k) =>
              /\ HasStatus(k.id, "Active")
              /\ HasOlder(Snapshot(p))
              /\ Invalidated(p, OlderOf(Snapshot(p)).id)
              /\ LastReceived = OlderOf(Snapshot(p)).id

\* C22 (amended): as C22 for the failing invocation and for the created key;
\* the invocation after it, when its store calls succeed, invalidates the older
\* key if there is one, and creates a second key if there is none; the older
\* key is the last one consumers received if its own push succeeded.
C22_NextInvalidatesOlderIfAny ==
    /\ FailedPushIsNormalStep
    /\ \A p \in Slots : \A k \in Snapshot(p) :
          (FollowsFailedPush(p, k) /\ StoreCallsSucceeded(p)) =>
              /\ HasStatus(k.id, "Active")
              /\ IF HasOlder(Snapshot(p))
                 THEN LET older == OlderOf(Snapshot(p)) IN
                      /\ k = NewerOf(Snapshot(p))
                      /\ older.status = "Active"
                      /\ Invalidated(p, older.id)
                      /\ HasStatus(older.id, "Inactive")
                      /\ (\E i \in DOMAIN pushes : pushes[i].id = older.id /\ pushes[i].ok)
                            => LastReceived = older.id
                 ELSE /\ Snapshot(p) = {k}
                      /\ CountCalls(p, "create") = 1
                      /\ CountCalls(p, "update") = 0

\* The second key's push failed and the next invocation invalidated the first
\* key, the one consumers hold.
C22_Witness ==
    \E p \in Slots : \E k \in Snapshot(p) :
        /\ FollowsFailedPush(p, k)
        /\ faults = 0
        /\ HasStatus(k.id, "Active")
        /\ Invalidated(p, OlderOf(Snapshot(p)).id)
        /\ LastReceived = OlderOf(Snapshot(p)).id
        /\ HasStatus(LastReceived, "Inactive")

\* ------------------------------------------------- more than two keys
\* No step changes the key set, issues a key id or reaches the distributor.
EngineIdle ==
    /\ store' = store
    /\ nextId' = nextId
    /\ pushes' = pushes

\* C23: once the store holds more than 2 keys, no step of the engine changes
\* the key set, creates a key or distributes one, and every invocation ends
\* with the fatal error.
C23_AbsorbingAndFatal ==
    [][Cardinality(store) > 2 =>
          /\ EngineIdle
          /\ \A p \in Slots : Done(p)' => thrown'[p] = "fatal_count"]_vars

\* C23 (amended): once the store holds more than 2 keys, no step of the engine
\* changes the key set, creates a key or distributes one; every invocation
\* issues the list call and nothing else, and ends with the fatal error when
\* the listing succeeds and with the caught store error when it fails.
C23_AbsorbingNoOp ==
    [][Cardinality(store) > 2 =>
          /\ EngineIdle
          /\ \A p \in Slots :
                Done(p)' =>
                    /\ Len(calls'[p]) = 1
                    /\ calls'[p][1].op = "list"
                    /\ thrown'[p] = IF calls'[p][1].ok THEN "fatal_count"
                                    ELSE "store_error"
                    /\ calls'[p][1].ok => Snapshot(p)' = store]_vars

\* Three keys, and every firing used up: the listing failed once, the latest
\* invocation threw the fatal error, and the keys are the ones it listed.
C23_Witness ==
    \E p \in Slots :
        /\ Cardinality(store) = 3
        /\ budget = 0
        /\ faults = 1
        /\ Latest(p) /\ Listed(p)
        /\ thrown[p] = "fatal_count"
        /\ Snapshot(p) = store
        /\ pushes = <<>>
        /\ nextId = 4
====
